---------------------------- MODULE Spec2Model ----------------------------
(***************************************************************************)
(* A model of the IRWA Part 1 preprocessing code:                          *)
(*   text_tokenize.py  (_normalize, build_terms)                           *)
(*   preprocess.py     (_norm, _num, _disc, _rating, _details_tokens,      *)
(*                      preprocess_row, _iter_docs)                        *)
(*                                                                         *)
(* Python strings are sequences of characters; a character is a one-element*)
(* TLA+ string ("a", "7", " ") or, for the non-ASCII code points the model *)
(* uses, a name ("NBSP", "LIG_FI").  Python values are tagged records.     *)
(***************************************************************************)
EXTENDS Integers, Sequences, FiniteSets, TLC

VARIABLES called, arg, ret

vars == <<called, arg, ret>>

(***************************************************************************)
(* Characters                                                              *)
(***************************************************************************)
LowerLetters ==
    <<"a","b","c","d","e","f","g","h","i","j","k","l","m",
      "n","o","p","q","r","s","t","u","v","w","x","y","z">>

UpperLetters ==
    <<"A","B","C","D","E","F","G","H","I","J","K","L","M",
      "N","O","P","Q","R","S","T","U","V","W","X","Y","Z">>

Range(s) == {s[i] : i \in DOMAIN s}

AsciiDigits == {"0","1","2","3","4","5","6","7","8","9"}

\* Non-ASCII code points of the model:
\*   NBSP U+00A0, LIG_FI U+FB01, FW_A U+FF21, FW_a U+FF41 (fullwidth A, a),
\*   I_DOT U+0130,
\*   COMB_DOT U+0307, COMB_ACUTE U+0301, E_ACUTE U+00E9, E_ACUTE_UP U+00C9,
\*   ELLIPSIS U+2026, SUP2 U+00B2
\* str.isspace / regex \s
IsSpace(c) == c \in {" ", "\n", "\t", "NBSP"}

\* str.isdigit of one character
IsDigitChar(c) == c \in AsciiDigits \cup {"SUP2"}

\* regex \d (Unicode decimal digits)
IsDecimal(c) == c \in AsciiDigits

\* regex \w (str.isalnum or underscore)
IsWord(c) ==
    \/ c \in Range(LowerLetters) \cup Range(UpperLetters)
    \/ c \in AsciiDigits \cup {"_"}
    \/ c \in {"LIG_FI", "FW_A", "FW_a", "I_DOT", "E_ACUTE", "E_ACUTE_UP", "SUP2"}

\* regex class [^\w\s]
IsPunct(c) == ~IsWord(c) /\ ~IsSpace(c)

(***************************************************************************)
(* Sequence helpers                                                        *)
(***************************************************************************)
EndsWith(w, suf) ==
    Len(suf) <= Len(w) /\ SubSeq(w, Len(w) - Len(suf) + 1, Len(w)) = suf

\* w without its last n characters
DropLast(w, n) == SubSeq(w, 1, Len(w) - n)

RECURSIVE Flatten(_)
Flatten(ss) == IF ss = <<>> THEN <<>> ELSE Head(ss) \o Flatten(Tail(ss))

\* str.lower of one character (a sequence: U+0130 lowers to two code points)
LowerChar(c) ==
    IF \E i \in DOMAIN UpperLetters : UpperLetters[i] = c
    THEN <<LowerLetters[CHOOSE i \in DOMAIN UpperLetters : UpperLetters[i] = c]>>
    ELSE IF c = "FW_A" THEN <<"FW_a">>
    ELSE IF c = "E_ACUTE_UP" THEN <<"E_ACUTE">>
    ELSE IF c = "I_DOT" THEN <<"i", "COMB_DOT">>
    ELSE <<c>>

lower(s) == Flatten([i \in DOMAIN s |-> LowerChar(s[i])])

\* Compatibility decomposition of one character
DecomposeChar(c) ==
    IF c = "NBSP" THEN <<" ">>
    ELSE IF c = "LIG_FI" THEN <<"f", "i">>
    ELSE IF c = "FW_A" THEN <<"A">>
    ELSE IF c = "FW_a" THEN <<"a">>
    ELSE IF c = "ELLIPSIS" THEN <<".", ".", ".">>
    ELSE IF c = "SUP2" THEN <<"2">>
    ELSE IF c = "E_ACUTE" THEN <<"e", "COMB_ACUTE">>
    ELSE IF c = "E_ACUTE_UP" THEN <<"E", "COMB_ACUTE">>
    ELSE IF c = "I_DOT" THEN <<"I", "COMB_DOT">>
    ELSE <<c>>

\* Canonical composition of a starter with the combining mark after it
ComposePair(b, m) ==
    IF b = "e" /\ m = "COMB_ACUTE" THEN "E_ACUTE"
    ELSE IF b = "E" /\ m = "COMB_ACUTE" THEN "E_ACUTE_UP"
    ELSE IF b = "I" /\ m = "COMB_DOT" THEN "I_DOT"
    ELSE "NONE"

RECURSIVE Compose(_)
Compose(s) ==
    IF Len(s) < 2 THEN s
    ELSE IF ComposePair(s[1], s[2]) # "NONE"
         THEN Compose(<<ComposePair(s[1], s[2])>> \o SubSeq(s, 3, Len(s)))
         ELSE <<s[1]>> \o Compose(Tail(s))

\* unicodedata.normalize("NFKC", s)
NFKC(s) == Compose(Flatten([i \in DOMAIN s |-> DecomposeChar(s[i])]))

\* the character classes of the two substitutions: [^\w\s] and \s
InClass(class, c) == IF class = "punct" THEN IsPunct(c) ELSE IsSpace(c)

\* re.sub(<class>+, " ", s): every maximal run of class characters becomes
\* one space
RECURSIVE SubRuns(_, _, _)
SubRuns(s, class, i) ==
    IF i > Len(s) THEN <<>>
    ELSE IF InClass(class, s[i])
         THEN (IF i > 1 /\ InClass(class, s[i-1]) THEN <<>> ELSE <<" ">>)
              \o SubRuns(s, class, i + 1)
         ELSE <<s[i]>> \o SubRuns(s, class, i + 1)

\* str.strip()
strip(s) ==
    LET keep == {i \in DOMAIN s : ~IsSpace(s[i])}
        Min(S) == CHOOSE x \in S : \A y \in S : x <= y
        Max(S) == CHOOSE x \in S : \A y \in S : x >= y
    IN IF keep = {} THEN <<>> ELSE SubSeq(s, Min(keep), Max(keep))

\* str.lstrip()
lstrip(s) ==
    LET keep == {i \in DOMAIN s : ~IsSpace(s[i])}
        Min(S) == CHOOSE x \in S : \A y \in S : x <= y
    IN IF keep = {} THEN <<>> ELSE SubSeq(s, Min(keep), Len(s))

(***************************************************************************)
(* Python values                                                           *)
(***************************************************************************)
None == [t |-> "none"]
StrV(s) == [t |-> "str", v |-> s]
IntV(n) == [t |-> "int", v |-> n]
BoolV(b) == [t |-> "bool", v |-> b]
ListV(xs) == [t |-> "list", v |-> xs]
\* a dict: its (key, value) pairs in insertion order
DictV(kvs) == [t |-> "dict", v |-> kvs]
\* an exception propagating out of the call
Raise == [t |-> "raise"]

isinstance(x, type) == x.t = type

(***************************************************************************)
(* Python conversions: str(), repr(), float()                              *)
(***************************************************************************)
DigitChars == <<"0","1","2","3","4","5","6","7","8","9">>

\* the decimal digits of n >= 0
RECURSIVE NatToStr(_)
NatToStr(n) ==
    IF n < 10 THEN <<DigitChars[n + 1]>>
    ELSE NatToStr(n \div 10) \o <<DigitChars[(n % 10) + 1]>>

IntToStr(n) == IF n < 0 THEN <<"-">> \o NatToStr(-n) ELSE NatToStr(n)

RECURSIVE StripLeadingZeros(_)
StripLeadingZeros(ds) ==
    IF ds # <<>> /\ ds[1] = "0" THEN StripLeadingZeros(Tail(ds)) ELSE ds

RECURSIVE StripTrailingZeros(_)
StripTrailingZeros(ds) ==
    IF ds # <<>> /\ ds[Len(ds)] = "0" THEN StripTrailingZeros(DropLast(ds, 1))
    ELSE ds

\* The float whose decimal numeral is [-]whole.frac.  It is kept as that
\* numeral without leading or trailing zeros, so that equal floats are equal
\* records (zero has no digits and no sign); the prices of the model are
\* short enough for a double to tell them apart.
FloatOf(neg, whole, frac) ==
    LET w == StripLeadingZeros(whole)
        f == StripTrailingZeros(frac)
    IN [t |-> "float", neg |-> neg /\ (w # <<>> \/ f # <<>>), whole |-> w, frac |-> f]

\* repr of a float in the range where Python prints it positionally
FloatToStr(f) ==
    (IF f.neg THEN <<"-">> ELSE <<>>)
    \o (IF f.whole = <<>> THEN <<"0">> ELSE f.whole)
    \o <<".">>
    \o (IF f.frac = <<>> THEN <<"0">> ELSE f.frac)

RECURSIVE JoinWith(_, _)
JoinWith(parts, sep) ==
    IF parts = <<>> THEN <<>>
    ELSE IF Len(parts) = 1 THEN parts[1]
    ELSE parts[1] \o sep \o JoinWith(Tail(parts), sep)

\* repr(x); the strings the model nests in lists and dicts are printable
\* ASCII without quotes or backslashes, which repr puts in single quotes
RECURSIVE PyRepr(_)
PyRepr(x) ==
    CASE x.t = "none" -> <<"N","o","n","e">>
      [] x.t = "bool" -> (IF x.v THEN <<"T","r","u","e">> ELSE <<"F","a","l","s","e">>)
      [] x.t = "int" -> IntToStr(x.v)
      [] x.t = "float" -> FloatToStr(x)
      [] x.t = "str" -> <<"'">> \o x.v \o <<"'">>
      [] x.t = "list" ->
            <<"[">> \o JoinWith([i \in DOMAIN x.v |-> PyRepr(x.v[i])], <<","," ">>) \o <<"]">>
      [] x.t = "dict" ->
            <<"{">> \o JoinWith([i \in DOMAIN x.v |->
                        PyRepr(x.v[i][1]) \o <<":"," ">> \o PyRepr(x.v[i][2])], <<","," ">>)
                 \o <<"}">>

\* str(x)
PyStr(x) == IF x.t = "str" THEN x.v ELSE PyRepr(x)

\* float(s) of a string: optional surrounding whitespace, optional sign,
\* digits with an optional point; the strings of the model spell no
\* exponent, underscore, "inf" or "nan".  A string that is no number raises
\* ValueError.
FloatOfStr(s) ==
    LET t == strip(s)
        signed == t # <<>> /\ t[1] \in {"+", "-"}
        body == IF signed THEN Tail(t) ELSE t
        points == {i \in DOMAIN body : body[i] = "."}
        wellFormed == /\ \A i \in DOMAIN body : IsDecimal(body[i]) \/ body[i] = "."
                      /\ Cardinality(points) <= 1
                      /\ \E i \in DOMAIN body : IsDecimal(body[i])
        p == IF points = {} THEN Len(body) + 1 ELSE CHOOSE i \in points : TRUE
    IN IF ~wellFormed THEN Raise
       ELSE FloatOf(signed /\ t[1] = "-", SubSeq(body, 1, p - 1),
                    SubSeq(body, p + 1, Len(body)))

\* float(x)
PyFloat(x) ==
    CASE x.t = "str" -> FloatOfStr(x.v)
      [] x.t = "int" -> FloatOf(x.v < 0, NatToStr(IF x.v < 0 THEN -x.v ELSE x.v), <<>>)
      [] x.t = "bool" -> FloatOf(FALSE, IF x.v THEN <<"1">> ELSE <<>>, <<>>)
      [] x.t = "float" -> x
      [] OTHER -> Raise

\* f / 100.0: the point moves two places to the left
FloatDiv100(f) ==
    LET w == <<"0", "0">> \o f.whole
    IN FloatOf(f.neg, DropLast(w, 2), SubSeq(w, Len(w) - 1, Len(w)) \o f.frac)

\* f > 1.0
FloatGt1(f) == ~f.neg /\ f.whole # <<>> /\ (f.whole # <<"1">> \/ f.frac # <<>>)

(***************************************************************************)
(* text_tokenize.py: the stopword set (nltk stopwords.words("english"))    *)
(***************************************************************************)
_STOP == {
    <<"i">>, <<"m","e">>, <<"m","y">>, <<"m","y","s","e","l","f">>, <<"w","e">>, <<"o","u","r">>, <<"o","u","r","s">>, <<"o","u","r","s","e","l","v","e","s">>,
    <<"y","o","u">>, <<"y","o","u","'","r","e">>, <<"y","o","u","'","v","e">>, <<"y","o","u","'","l","l">>, <<"y","o","u","'","d">>, <<"y","o","u","r">>, <<"y","o","u","r","s">>,
    <<"y","o","u","r","s","e","l","f">>, <<"y","o","u","r","s","e","l","v","e","s">>, <<"h","e">>, <<"h","i","m">>, <<"h","i","s">>, <<"h","i","m","s","e","l","f">>, <<"s","h","e">>,
    <<"s","h","e","'","s">>, <<"h","e","r">>, <<"h","e","r","s">>, <<"h","e","r","s","e","l","f">>, <<"i","t">>, <<"i","t","'","s">>, <<"i","t","s">>,
    <<"i","t","s","e","l","f">>, <<"t","h","e","y">>, <<"t","h","e","m">>, <<"t","h","e","i","r">>, <<"t","h","e","i","r","s">>, <<"t","h","e","m","s","e","l","v","e","s">>,
    <<"w","h","a","t">>, <<"w","h","i","c","h">>, <<"w","h","o">>, <<"w","h","o","m">>, <<"t","h","i","s">>, <<"t","h","a","t">>, <<"t","h","a","t","'","l","l">>,
    <<"t","h","e","s","e">>, <<"t","h","o","s","e">>, <<"a","m">>, <<"i","s">>, <<"a","r","e">>, <<"w","a","s">>, <<"w","e","r","e">>, <<"b","e">>,
    <<"b","e","e","n">>, <<"b","e","i","n","g">>, <<"h","a","v","e">>, <<"h","a","s">>, <<"h","a","d">>, <<"h","a","v","i","n","g">>, <<"d","o">>, <<"d","o","e","s">>,
    <<"d","i","d">>, <<"d","o","i","n","g">>, <<"a">>, <<"a","n">>, <<"t","h","e">>, <<"a","n","d">>, <<"b","u","t">>, <<"i","f">>, <<"o","r">>,
    <<"b","e","c","a","u","s","e">>, <<"a","s">>, <<"u","n","t","i","l">>, <<"w","h","i","l","e">>, <<"o","f">>, <<"a","t">>, <<"b","y">>, <<"f","o","r">>,
    <<"w","i","t","h">>, <<"a","b","o","u","t">>, <<"a","g","a","i","n","s","t">>, <<"b","e","t","w","e","e","n">>, <<"i","n","t","o">>, <<"t","h","r","o","u","g","h">>,
    <<"d","u","r","i","n","g">>, <<"b","e","f","o","r","e">>, <<"a","f","t","e","r">>, <<"a","b","o","v","e">>, <<"b","e","l","o","w">>, <<"t","o">>, <<"f","r","o","m">>,
    <<"u","p">>, <<"d","o","w","n">>, <<"i","n">>, <<"o","u","t">>, <<"o","n">>, <<"o","f","f">>, <<"o","v","e","r">>, <<"u","n","d","e","r">>,
    <<"a","g","a","i","n">>, <<"f","u","r","t","h","e","r">>, <<"t","h","e","n">>, <<"o","n","c","e">>, <<"h","e","r","e">>, <<"t","h","e","r","e">>, <<"w","h","e","n">>,
    <<"w","h","e","r","e">>, <<"w","h","y">>, <<"h","o","w">>, <<"a","l","l">>, <<"a","n","y">>, <<"b","o","t","h">>, <<"e","a","c","h">>, <<"f","e","w">>,
    <<"m","o","r","e">>, <<"m","o","s","t">>, <<"o","t","h","e","r">>, <<"s","o","m","e">>, <<"s","u","c","h">>, <<"n","o">>, <<"n","o","r">>, <<"n","o","t">>,
    <<"o","n","l","y">>, <<"o","w","n">>, <<"s","a","m","e">>, <<"s","o">>, <<"t","h","a","n">>, <<"t","o","o">>, <<"v","e","r","y">>, <<"s">>, <<"t">>,
    <<"c","a","n">>, <<"w","i","l","l">>, <<"j","u","s","t">>, <<"d","o","n">>, <<"d","o","n","'","t">>, <<"s","h","o","u","l","d">>, <<"s","h","o","u","l","d","'","v","e">>,
    <<"n","o","w">>, <<"d">>, <<"l","l">>, <<"m">>, <<"o">>, <<"r","e">>, <<"v","e">>, <<"y">>, <<"a","i","n">>, <<"a","r","e","n">>,
    <<"a","r","e","n","'","t">>, <<"c","o","u","l","d","n">>, <<"c","o","u","l","d","n","'","t">>, <<"d","i","d","n">>, <<"d","i","d","n","'","t">>, <<"d","o","e","s","n">>,
    <<"d","o","e","s","n","'","t">>, <<"h","a","d","n">>, <<"h","a","d","n","'","t">>, <<"h","a","s","n">>, <<"h","a","s","n","'","t">>, <<"h","a","v","e","n">>,
    <<"h","a","v","e","n","'","t">>, <<"i","s","n">>, <<"i","s","n","'","t">>, <<"m","a">>, <<"m","i","g","h","t","n">>, <<"m","i","g","h","t","n","'","t">>, <<"m","u","s","t","n">>,
    <<"m","u","s","t","n","'","t">>, <<"n","e","e","d","n">>, <<"n","e","e","d","n","'","t">>, <<"s","h","a","n">>, <<"s","h","a","n","'","t">>, <<"s","h","o","u","l","d","n">>,
    <<"s","h","o","u","l","d","n","'","t">>, <<"w","a","s","n">>, <<"w","a","s","n","'","t">>, <<"w","e","r","e","n">>, <<"w","e","r","e","n","'","t">>, <<"w","o","n">>,
    <<"w","o","n","'","t">>, <<"w","o","u","l","d","n">>, <<"w","o","u","l","d","n","'","t">> }

(***************************************************************************)
(* text_tokenize.py: _STEM = PorterStemmer()  (nltk, NLTK_EXTENSIONS mode) *)
(***************************************************************************)
RECURSIVE _is_consonant(_, _)
_is_consonant(word, i) ==
    IF word[i] \in {"a", "e", "i", "o", "u"} THEN FALSE
    ELSE IF word[i] = "y"
         THEN (IF i = 1 THEN TRUE ELSE ~_is_consonant(word, i - 1))
         ELSE TRUE

\* the number of "vc" in the consonant/vowel pattern of stem
_measure(stem) ==
    Cardinality({i \in 1..(Len(stem) - 1) :
                    ~_is_consonant(stem, i) /\ _is_consonant(stem, i + 1)})

_contains_vowel(stem) == \E i \in DOMAIN stem : ~_is_consonant(stem, i)

_ends_double_consonant(word) ==
    /\ Len(word) >= 2
    /\ word[Len(word)] = word[Len(word) - 1]
    /\ _is_consonant(word, Len(word))

_ends_cvc(word) ==
    \/ /\ Len(word) >= 3
       /\ _is_consonant(word, Len(word) - 2)
       /\ ~_is_consonant(word, Len(word) - 1)
       /\ _is_consonant(word, Len(word))
       /\ word[Len(word)] \notin {"w", "x", "y"}
    \/ /\ Len(word) = 2
       /\ ~_is_consonant(word, 1)
       /\ _is_consonant(word, 2)

\* the conditions the rules carry; word is the word the step was given
RuleCondition(cond, stem, word) ==
    CASE cond = "none" -> TRUE
      [] cond = "m>0" -> _measure(stem) > 0
      [] cond = "m>1" -> _measure(stem) > 1
      [] cond = "m>1 st" ->
            _measure(stem) > 1 /\ Len(stem) > 0 /\ stem[Len(stem)] \in {"s", "t"}
      [] cond = "not lsz" -> word[Len(word)] \notin {"l", "s", "z"}
      [] cond = "m=1 cvc" -> _measure(stem) = 1 /\ _ends_cvc(stem)
      [] cond = "1c" -> Len(stem) > 1 /\ _is_consonant(stem, Len(stem))
      [] cond = "logi" -> _measure(DropLast(word, 3)) > 0
      [] cond = "5b" -> _measure(DropLast(word, 1)) > 1

Rule(suffix, replacement, cond) == [suf |-> suffix, rep |-> replacement, cond |-> cond]

\* the first rule whose suffix matches decides; a suffix of "*d" stands for
\* a double consonant
RECURSIVE _apply_rule_list(_, _, _)
_apply_rule_list(word, rules, i) ==
    IF i > Len(rules) THEN word
    ELSE LET r == rules[i] IN
         IF r.suf = <<"*", "d">>
         THEN IF _ends_double_consonant(word)
              THEN IF RuleCondition(r.cond, DropLast(word, 2), word)
                   THEN DropLast(word, 2) \o r.rep
                   ELSE word
              ELSE _apply_rule_list(word, rules, i + 1)
         ELSE IF EndsWith(word, r.suf)
              THEN IF RuleCondition(r.cond, DropLast(word, Len(r.suf)), word)
                   THEN DropLast(word, Len(r.suf)) \o r.rep
                   ELSE word
              ELSE _apply_rule_list(word, rules, i + 1)

Step1aRules ==
    << Rule(<<"s","s","e","s">>, <<"s","s">>, "none"),
       Rule(<<"i","e","s">>, <<"i">>, "none"),
       Rule(<<"s","s">>, <<"s","s">>, "none"),
       Rule(<<"s">>, <<>>, "none") >>

_step1a(word) ==
    IF EndsWith(word, <<"i","e","s">>) /\ Len(word) = 4
    THEN DropLast(word, 3) \o <<"i","e">>
    ELSE _apply_rule_list(word, Step1aRules, 1)

_step1b(word) ==
    IF EndsWith(word, <<"i","e","d">>)
    THEN (IF Len(word) = 4 THEN DropLast(word, 3) \o <<"i","e">>
                           ELSE DropLast(word, 3) \o <<"i">>)
    ELSE IF EndsWith(word, <<"e","e","d">>)
    THEN (IF _measure(DropLast(word, 3)) > 0 THEN DropLast(word, 3) \o <<"e","e">>
                                             ELSE word)
    ELSE LET ed == EndsWith(word, <<"e","d">>) /\ _contains_vowel(DropLast(word, 2))
             ing == EndsWith(word, <<"i","n","g">>) /\ _contains_vowel(DropLast(word, 3))
             intermediate_stem ==
                 IF ed THEN DropLast(word, 2) ELSE DropLast(word, 3)
         IN IF ~(ed \/ ing) THEN word
            ELSE _apply_rule_list(intermediate_stem,
                    << Rule(<<"a","t">>, <<"a","t","e">>, "none"),
                       Rule(<<"b","l">>, <<"b","l","e">>, "none"),
                       Rule(<<"i","z">>, <<"i","z","e">>, "none"),
                       Rule(<<"*","d">>, <<intermediate_stem[Len(intermediate_stem)]>>,
                            "not lsz"),
                       Rule(<<>>, <<"e">>, "m=1 cvc") >>, 1)

Step1cRules == << Rule(<<"y">>, <<"i">>, "1c") >>

_step1c(word) == _apply_rule_list(word, Step1cRules, 1)

Step2Rules ==
    << Rule(<<"a","t","i","o","n","a","l">>, <<"a","t","e">>, "m>0"),
       Rule(<<"t","i","o","n","a","l">>, <<"t","i","o","n">>, "m>0"),
       Rule(<<"e","n","c","i">>, <<"e","n","c","e">>, "m>0"),
       Rule(<<"a","n","c","i">>, <<"a","n","c","e">>, "m>0"),
       Rule(<<"i","z","e","r">>, <<"i","z","e">>, "m>0"),
       Rule(<<"b","l","i">>, <<"b","l","e">>, "m>0"),
       Rule(<<"a","l","l","i">>, <<"a","l">>, "m>0"),
       Rule(<<"e","n","t","l","i">>, <<"e","n","t">>, "m>0"),
       Rule(<<"e","l","i">>, <<"e">>, "m>0"),
       Rule(<<"o","u","s","l","i">>, <<"o","u","s">>, "m>0"),
       Rule(<<"i","z","a","t","i","o","n">>, <<"i","z","e">>, "m>0"),
       Rule(<<"a","t","i","o","n">>, <<"a","t","e">>, "m>0"),
       Rule(<<"a","t","o","r">>, <<"a","t","e">>, "m>0"),
       Rule(<<"a","l","i","s","m">>, <<"a","l">>, "m>0"),
       Rule(<<"i","v","e","n","e","s","s">>, <<"i","v","e">>, "m>0"),
       Rule(<<"f","u","l","n","e","s","s">>, <<"f","u","l">>, "m>0"),
       Rule(<<"o","u","s","n","e","s","s">>, <<"o","u","s">>, "m>0"),
       Rule(<<"a","l","i","t","i">>, <<"a","l">>, "m>0"),
       Rule(<<"i","v","i","t","i">>, <<"i","v","e">>, "m>0"),
       Rule(<<"b","i","l","i","t","i">>, <<"b","l","e">>, "m>0"),
       Rule(<<"f","u","l","l","i">>, <<"f","u","l">>, "m>0"),
       Rule(<<"l","o","g","i">>, <<"l","o","g">>, "logi") >>

RECURSIVE _step2(_)
_step2(word) ==
    IF EndsWith(word, <<"a","l","l","i">>) /\ _measure(DropLast(word, 4)) > 0
    THEN _step2(DropLast(word, 4) \o <<"a","l">>)
    ELSE _apply_rule_list(word, Step2Rules, 1)

Step3Rules ==
        << Rule(<<"i","c","a","t","e">>, <<"i","c">>, "m>0"),
           Rule(<<"a","t","i","v","e">>, <<>>, "m>0"),
           Rule(<<"a","l","i","z","e">>, <<"a","l">>, "m>0"),
           Rule(<<"i","c","i","t","i">>, <<"i","c">>, "m>0"),
           Rule(<<"i","c","a","l">>, <<"i","c">>, "m>0"),
           Rule(<<"f","u","l">>, <<>>, "m>0"),
           Rule(<<"n","e","s","s">>, <<>>, "m>0") >>

_step3(word) == _apply_rule_list(word, Step3Rules, 1)

Step4Rules ==
        << Rule(<<"a","l">>, <<>>, "m>1"),
           Rule(<<"a","n","c","e">>, <<>>, "m>1"),
           Rule(<<"e","n","c","e">>, <<>>, "m>1"),
           Rule(<<"e","r">>, <<>>, "m>1"),
           Rule(<<"i","c">>, <<>>, "m>1"),
           Rule(<<"a","b","l","e">>, <<>>, "m>1"),
           Rule(<<"i","b","l","e">>, <<>>, "m>1"),
           Rule(<<"a","n","t">>, <<>>, "m>1"),
           Rule(<<"e","m","e","n","t">>, <<>>, "m>1"),
           Rule(<<"m","e","n","t">>, <<>>, "m>1"),
           Rule(<<"e","n","t">>, <<>>, "m>1"),
           Rule(<<"i","o","n">>, <<>>, "m>1 st"),
           Rule(<<"o","u">>, <<>>, "m>1"),
           Rule(<<"i","s","m">>, <<>>, "m>1"),
           Rule(<<"a","t","e">>, <<>>, "m>1"),
           Rule(<<"i","t","i">>, <<>>, "m>1"),
           Rule(<<"o","u","s">>, <<>>, "m>1"),
           Rule(<<"i","v","e">>, <<>>, "m>1"),
           Rule(<<"i","z","e">>, <<>>, "m>1") >>

_step4(word) == _apply_rule_list(word, Step4Rules, 1)

_step5a(word) ==
    IF EndsWith(word, <<"e">>)
    THEN LET stem == DropLast(word, 1) IN
         IF _measure(stem) > 1 THEN stem
         ELSE IF _measure(stem) = 1 /\ ~_ends_cvc(stem) THEN stem
         ELSE word
    ELSE word

Step5bRules == << Rule(<<"l","l">>, <<"l">>, "5b") >>

_step5b(word) == _apply_rule_list(word, Step5bRules, 1)

\* the irregular forms of NLTK_EXTENSIONS mode
Pool(word) ==
    CASE word \in {<<"s","k","y">>, <<"s","k","i","e","s">>} -> <<"s","k","y">>
      [] word = <<"d","y","i","n","g">> -> <<"d","i","e">>
      [] word = <<"l","y","i","n","g">> -> <<"l","i","e">>
      [] word = <<"t","y","i","n","g">> -> <<"t","i","e">>
      [] word = <<"n","e","w","s">> -> <<"n","e","w","s">>
      [] word \in {<<"i","n","n","i","n","g","s">>, <<"i","n","n","i","n","g">>} -> <<"i","n","n","i","n","g">>
      [] word \in {<<"o","u","t","i","n","g","s">>, <<"o","u","t","i","n","g">>} -> <<"o","u","t","i","n","g">>
      [] word \in {<<"c","a","n","n","i","n","g","s">>, <<"c","a","n","n","i","n","g">>} -> <<"c","a","n","n","i","n","g">>
      [] word = <<"h","o","w","e">> -> <<"h","o","w","e">>
      [] word = <<"p","r","o","c","e","e","d">> -> <<"p","r","o","c","e","e","d">>
      [] word = <<"e","x","c","e","e","d">> -> <<"e","x","c","e","e","d">>
      [] word = <<"s","u","c","c","e","e","d">> -> <<"s","u","c","c","e","e","d">>
      [] OTHER -> <<>>

\* _STEM.stem(word)
stem(word) ==
    LET w == lower(word) IN
    IF Pool(word) # <<>> THEN Pool(word)
    ELSE IF Len(word) <= 2 THEN w
    ELSE _step5b(_step5a(_step4(_step3(_step2(_step1c(_step1b(_step1a(w))))))))

(***************************************************************************)
(* text_tokenize.py: _normalize, build_terms                               *)
(***************************************************************************)
\* _normalize taking the string form of whatever it is given
_normalize_any(text) ==
    strip(SubRuns(SubRuns(lower(NFKC(PyStr(text))), "punct", 1), "space", 1))

_normalize(text) ==
    IF ~isinstance(text, "str") THEN <<>>
    ELSE LET s1 == lower(NFKC(text.v))
             s2 == SubRuns(s1, "punct", 1)
         IN strip(SubRuns(s2, "space", 1))

\* str.split(): the maximal runs of non-whitespace characters, in order
split(s) ==
    LET starts == {i \in DOMAIN s :
                      ~IsSpace(s[i]) /\ (i = 1 \/ IsSpace(s[i-1]))}
        EndOf(i) == CHOOSE j \in i..Len(s) :
                      /\ \A k \in i..j : ~IsSpace(s[k])
                      /\ (j = Len(s) \/ IsSpace(s[j+1]))
        Nth(n) == CHOOSE i \in starts :
                      Cardinality({k \in starts : k < i}) = n - 1
    IN [n \in 1..Cardinality(starts) |-> SubSeq(s, Nth(n), EndOf(Nth(n)))]

\* str.isdigit(): non-empty and every character a digit
isdigit(t) == t # <<>> /\ \A i \in DOMAIN t : IsDigitChar(t[i])

StemAll(tokens) == [i \in DOMAIN tokens |-> stem(tokens[i])]

\* build_terms without its last filter
build_terms_unfiltered(text) ==
    LET NotStop(t) == t \notin _STOP
    IN StemAll(SelectSeq(split(_normalize(text)), NotStop))

\* build_terms keeping only the first occurrence of each term
build_terms_unique(text) ==
    LET NotStop(t) == t \notin _STOP
        tokens2 == StemAll(SelectSeq(split(_normalize(text)), NotStop))
        firsts == {i \in DOMAIN tokens2 :
                     /\ Len(tokens2[i]) > 1 /\ ~isdigit(tokens2[i])
                     /\ \A j \in 1..(i-1) : tokens2[j] # tokens2[i]}
        Nth(n) == CHOOSE i \in firsts : Cardinality({k \in firsts : k < i}) = n - 1
    IN [n \in 1..Cardinality(firsts) |-> tokens2[Nth(n)]]

build_terms(text) ==
    LET s == _normalize(text)
        tokens0 == split(s)
        NotStop(t) == t \notin _STOP
        tokens1 == SelectSeq(tokens0, NotStop)
        tokens2 == StemAll(tokens1)
        Keep(t) == Len(t) > 1 /\ ~isdigit(t)
    IN SelectSeq(tokens2, Keep)

(***************************************************************************)
(* preprocess.py: _norm                                                    *)
(***************************************************************************)
\* _norm without the whitespace collapse
_norm_uncollapsed(x) ==
    IF ~isinstance(x, "str") THEN StrV(<<>>)
    ELSE StrV(strip(SubRuns(lower(NFKC(x.v)), "punct", 1)))

_norm(x) ==
    IF ~isinstance(x, "str") THEN StrV(<<>>)
    ELSE LET s1 == lower(NFKC(x.v))
             s2 == SubRuns(s1, "punct", 1)
             s3 == strip(SubRuns(s2, "space", 1))
         IN StrV(s3)

(***************************************************************************)
(* preprocess.py: _num, _disc, _rating                                     *)
(***************************************************************************)
\* the end of the match of \d+(?:\.\d+)? that starts at the digit s[i]
MatchEnd(s, i) ==
    LET RunEnd(a) == CHOOSE j \in a..Len(s) :
                        /\ \A k \in a..j : IsDecimal(s[k])
                        /\ (j = Len(s) \/ ~IsDecimal(s[j+1]))
        j == RunEnd(i)
    IN IF j + 2 <= Len(s) /\ s[j+1] = "." /\ IsDecimal(s[j+2])
       THEN RunEnd(j + 2) ELSE j

\* re.findall(r"\d+(?:\.\d+)?", s): the matches from left to right, each
\* search resuming after the previous match
RECURSIVE findall(_, _)
findall(s, from) ==
    IF from > Len(s) THEN <<>>
    ELSE IF ~IsDecimal(s[from]) THEN findall(s, from + 1)
    ELSE <<SubSeq(s, from, MatchEnd(s, from))>> \o findall(s, MatchEnd(s, from) + 1)

\* str.replace(",", "")
RemoveCommas(s) == LET NotComma(c) == c # "," IN SelectSeq(s, NotComma)

\* _num reading the number from the string as it is, commas kept
_num_commas(x) ==
    IF x = None THEN None
    ELSE LET m == findall(PyStr(x), 1)
         IN IF m # <<>> THEN FloatOfStr(m[1]) ELSE None

_num(x) ==
    IF x = None THEN None
    ELSE LET s == RemoveCommas(PyStr(x))
             m == findall(s, 1)
         IN IF m # <<>> THEN FloatOfStr(m[1]) ELSE None

\* _disc with the fraction clamped to 1
_disc_clamped(x) ==
    IF x = None THEN None
    ELSE LET m == findall(PyStr(x), 1)
             f == FloatDiv100(FloatOfStr(m[1]))
         IN IF m = <<>> THEN None
            ELSE IF FloatGt1(f) THEN FloatOf(FALSE, <<"1">>, <<>>) ELSE f

\* re.search(...).group(1) is the first match of the same pattern
_disc(x) ==
    IF x = None THEN None
    ELSE LET m == findall(PyStr(x), 1)
         IN IF m # <<>> THEN FloatDiv100(FloatOfStr(m[1])) ELSE None

\* _rating without the try/except
_rating_uncaught(x) == PyFloat(x)

_rating(x) == IF PyFloat(x) = Raise THEN None ELSE PyFloat(x)

(***************************************************************************)
(* preprocess.py: _details_tokens                                          *)
(***************************************************************************)
\* the loop over the items: out += build_terms(str(k)), build_terms(str(v))
RECURSIVE TokenizeItems(_, _, _)
TokenizeItems(items, i, out) ==
    IF i > Len(items) THEN out
    ELSE TokenizeItems(items, i + 1,
            out \o build_terms(StrV(PyStr(items[i][1])))
                \o build_terms(StrV(PyStr(items[i][2]))))

\* the loop with the value of each item tokenized before its key
RECURSIVE TokenizeItemsValueFirst(_, _, _)
TokenizeItemsValueFirst(items, i, out) ==
    IF i > Len(items) THEN out
    ELSE TokenizeItemsValueFirst(items, i + 1,
            out \o build_terms(StrV(PyStr(items[i][2])))
                \o build_terms(StrV(PyStr(items[i][1]))))

\* items.extend(d.items()) for every dict d of the list
RECURSIVE ExtendItems(_, _, _)
ExtendItems(lst, i, items) ==
    IF i > Len(lst) THEN items
    ELSE ExtendItems(lst, i + 1,
            IF isinstance(lst[i], "dict") THEN items \o lst[i].v ELSE items)

ItemsOf(lst) ==
    IF isinstance(lst, "dict") THEN lst.v
    ELSE IF isinstance(lst, "list") THEN ExtendItems(lst.v, 1, <<>>)
    ELSE <<>>

_details_tokens_value_first(lst) == TokenizeItemsValueFirst(ItemsOf(lst), 1, <<>>)

_details_tokens(lst) == TokenizeItems(ItemsOf(lst), 1, <<>>)

(***************************************************************************)
(* preprocess.py: preprocess_row                                           *)
(***************************************************************************)
\* doc.get(key, default); a raw record is a function from its keys
Get(doc, key, default) == IF key \in DOMAIN doc THEN doc[key] ELSE default

\* bool(x)
PyBool(x) ==
    CASE x.t = "none" -> FALSE
      [] x.t = "bool" -> x.v
      [] x.t = "int" -> x.v # 0
      [] x.t = "float" -> x.whole # <<>> \/ x.frac # <<>>
      [] OTHER -> x.v # <<>>

Brand(brand_raw) ==
    IF isinstance(brand_raw, "str")
    THEN (IF strip(lower(NFKC(brand_raw.v))) = <<>> THEN StrV(<<"u","n","k","n","o","w","n">>)
          ELSE StrV(strip(lower(NFKC(brand_raw.v)))))
    ELSE StrV(<<"u","n","k","n","o","w","n">>)

preprocess_row(doc) ==
    LET title == Get(doc, "title", StrV(<<>>))
        desc == Get(doc, "description", StrV(<<>>))
        row ==
          [ pid |-> Get(doc, "pid", None),
            title_raw |-> title,
            description_raw |-> desc,
            product_details_raw |-> Get(doc, "product_details", DictV(<<>>)),
            discount_raw |-> Get(doc, "discount", None),
            url |-> Get(doc, "url", StrV(<<>>)),
            brand |-> Brand(Get(doc, "brand", StrV(<<>>))),
            category |-> _norm(Get(doc, "category", StrV(<<>>))),
            sub_category |-> _norm(Get(doc, "sub_category", StrV(<<>>))),
            seller |-> _norm(Get(doc, "seller", StrV(<<>>))),
            title_tokens |-> build_terms(title),
            desc_tokens |-> build_terms(desc),
            details_tokens |->
                _details_tokens(Get(doc, "product_details", ListV(<<>>))),
            out_of_stock |-> PyBool(Get(doc, "out_of_stock", BoolV(FALSE))),
            selling_price |-> _num(Get(doc, "selling_price", None)),
            actual_price |-> _num(Get(doc, "actual_price", None)),
            discount_frac |-> _disc(Get(doc, "discount", None)),
            average_rating |-> _rating(Get(doc, "average_rating", None)) ]
    IN \* an exception in a parser leaves preprocess_row
       IF Raise \in {row.selling_price, row.actual_price, row.discount_frac,
                     row.average_rating}
       THEN Raise ELSE row

(***************************************************************************)
(* preprocess.py: _iter_docs                                               *)
(*                                                                         *)
(* A file is its sequence of characters.  The text of one JSON object      *)
(* (which holds no line break) is kept as one element, "OBJ1" or "OBJ2",   *)
(* and parses to the document of that name.                                *)
(***************************************************************************)
PeekSize == 1024

IsObject(c) == c \in {"OBJ1", "OBJ2"}

\* the document an object text parses to
Document(c) == DictV(<< <<StrV(<<"p","i","d">>), StrV(<<c>>)>> >>)

\* f.read(PeekSize) from the start of the file
ReadPeek(file) == SubSeq(file, 1, IF Len(file) < PeekSize THEN Len(file) ELSE PeekSize)

\* json.load / json.loads of a text: an object, or an array of objects;
\* anything else raises JSONDecodeError
JsonParse(text) ==
    LET toks == SelectSeq(text, LAMBDA c : ~IsSpace(c))
        n == Len(toks)
        inner == SubSeq(toks, 2, n - 1)
    IN IF n = 1 /\ IsObject(toks[1]) THEN Document(toks[1])
       ELSE IF /\ n >= 2 /\ toks[1] = "[" /\ toks[n] = "]"
               /\ (inner = <<>> \/ Len(inner) % 2 = 1)
               /\ \A i \in DOMAIN inner :
                     IF i % 2 = 1 THEN IsObject(inner[i]) ELSE inner[i] = ","
            THEN ListV([i \in 1..((Len(inner) + 1) \div 2) |-> Document(inner[2*i - 1])])
            ELSE Raise

\* for line in f: line.strip(), the empty ones skipped.  A line that is not
\* empty is the characters from its first to its last non-whitespace one,
\* and no line break lies between two of the same line.
StrippedLines(file) ==
    LET ink == {i \in DOMAIN file : ~IsSpace(file[i])}
        SameLine(i, j) == \A k \in i..j : file[k] # "\n"
        firsts == {i \in ink : \A j \in ink : j < i => ~SameLine(j, i)}
        LastOf(i) == CHOOSE j \in ink :
                        /\ j >= i /\ SameLine(i, j)
                        /\ \A k \in ink : (k > j) => ~SameLine(i, k)
        Nth(n) == CHOOSE i \in firsts : Cardinality({k \in firsts : k < i}) = n - 1
    IN [n \in 1..Cardinality(firsts) |-> SubSeq(file, Nth(n), LastOf(Nth(n)))]

\* what the generator yields: the documents in order, and whether it then
\* raised
Yielded(docs, raised) == [docs |-> docs, raised |-> raised]

\* the JSONL branch: the lines parse one by one until one raises
YieldLines(file) ==
    LET lines == StrippedLines(file)
        parsed == [i \in DOMAIN lines |-> JsonParse(lines[i])]
        bad == {i \in DOMAIN parsed : parsed[i] = Raise}
        stop == IF bad = {} THEN Len(parsed) + 1
                ELSE CHOOSE i \in bad : \A j \in bad : i <= j
    IN Yielded(SubSeq(parsed, 1, stop - 1), bad # {})

\* the JSON array branch
YieldArray(file) ==
    LET data == JsonParse(file)
    IN IF data = Raise THEN Yielded(<<>>, TRUE)
       ELSE IF data.t = "list" THEN Yielded(data.v, FALSE)
       ELSE Yielded(<<>>, FALSE)

_iter_docs(file) ==
    LET first == lstrip(ReadPeek(file))
    IN IF first # <<>> /\ first[1] = "[" THEN YieldArray(file)
       ELSE YieldLines(file)

(***************************************************************************)
(* The calls.  Every function of the two modules is pure, so a behaviour   *)
(* is one call: the initial state holds the argument, and the call leaves  *)
(* the function called and what it returned.                               *)
(***************************************************************************)
Call(name, result) ==
    /\ called = "none"
    /\ called' = name
    /\ ret' = result
    /\ UNCHANGED arg

\* the longest text is MaxWords pieces, each a separator and a word
MaxWords == 3

Words ==
    { <<"R","e","d">>, <<"s","h","o","e","s">>, <<"T","h","e">>, <<"w","i","l","l","i","n","g">>, <<"i","e","s">>, <<"4", "SUP2">> }

Separators == { <<" ">>, <<"-", "NBSP">> }

\* every word after a space; a kept word, a stopword and a digit word also
\* after a hyphen and a no-break space
Pieces ==
    { <<" ">> \o w : w \in Words }
        \cup { sep \o w : sep \in Separators,
                          w \in { <<"R","e","d">>, <<"T","h","e">>, <<"4", "SUP2">> } }

RECURSIVE TextsOf(_)
TextsOf(n) ==
    IF n = 0 THEN { <<>> }
    ELSE LET shorter == TextsOf(n - 1)
         IN shorter \cup { t \o p : t \in {x \in shorter : Len(x) > 0 \/ n = 1},
                                     p \in Pieces }

Texts == TextsOf(MaxWords)

NonStrings == { None, IntV(42), BoolV(TRUE), ListV(<<StrV(<<"R","e","d">>)>>) }

InitTok ==
    /\ called = "none"
    /\ arg \in {StrV(t) : t \in Texts} \cup NonStrings
    /\ ret = None

Call_build_terms == Call("build_terms", build_terms(arg))

NextTok == Call_build_terms

SpecTok == InitTok /\ [][NextTok]_vars

(***************************************************************************)
(* Properties of build_terms                                               *)
(***************************************************************************)
\* the whitespace-split tokens of the normalized argument
RawTokens == split(_normalize(arg))

\* the n-th smallest element of a set of integers
NthOf(S, n) == CHOOSE i \in S : Cardinality({k \in S : k < i}) = n - 1

\* C1 as stated: no term build_terms returns is a stopword, has length <= 1
\* or consists entirely of digits.
C1_NoStopShortDigit ==
    called = "build_terms" =>
        \A i \in DOMAIN ret :
            ret[i] \notin _STOP /\ Len(ret[i]) > 1 /\ ~isdigit(ret[i])

\* C1 amended: no term build_terms returns has length <= 1 or consists
\* entirely of digits, and every term is the stem of a token of the
\* normalized text that is not a stopword (the stem itself may be one).
C1_NoShortDigit_StemOfNonStop ==
    called = "build_terms" =>
        LET raw == RawTokens
            stems == {stem(raw[j]) : j \in {k \in DOMAIN raw : raw[k] \notin _STOP}}
        IN \A i \in DOMAIN ret :
              Len(ret[i]) > 1 /\ ~isdigit(ret[i]) /\ ret[i] \in stems

\* C1 witness: a text with a stopword and a token that the filter after
\* stemming drops (its stem has one character, or it is all digits), from
\* which build_terms returned a term that is a stopword.
C1_Witness ==
    /\ called = "build_terms"
    /\ \E j \in DOMAIN RawTokens : RawTokens[j] \in _STOP
    /\ \E j \in DOMAIN RawTokens :
          \/ Len(RawTokens[j]) > 1 /\ Len(stem(RawTokens[j])) = 1
          \/ isdigit(RawTokens[j])
    /\ \E i \in DOMAIN ret : ret[i] \in _STOP

\* C2: the terms are the stems of the surviving tokens in their original
\* order, duplicates kept: a strictly increasing choice of token positions
\* (the set S) gives the terms one by one and misses no token that is not a
\* stopword and whose stem is longer than one character and not all digits.
C2_OrderAndDuplicates ==
    called = "build_terms" =>
        LET raw == RawTokens
            stems == [j \in DOMAIN raw |-> stem(raw[j])]
            kept == {j \in DOMAIN raw :
                        /\ raw[j] \notin _STOP
                        /\ Len(stems[j]) > 1
                        /\ ~isdigit(stems[j])}
        IN \E S \in SUBSET DOMAIN raw :
              /\ Cardinality(S) = Len(ret)
              /\ kept \subseteq S
              /\ \A i \in DOMAIN ret : ret[i] = stems[NthOf(S, i)]

\* C2 witness: "Red Red shoes" gives red, red, shoe.
C2_Witness ==
    /\ called = "build_terms"
    /\ arg = StrV(<<" ","R","e","d"," ","R","e","d"," ","s","h","o","e","s">>)
    /\ ret = << <<"r","e","d">>, <<"r","e","d">>, <<"s","h","o","e">> >>

(***************************************************************************)
(* _norm: facet strings of up to MaxLen characters                         *)
(***************************************************************************)
MaxLen == 3

FacetChars ==
    { "a", "B", "1", "_", " ", "&", "e", "NBSP", "LIG_FI", "I_DOT",
      "ELLIPSIS", "COMB_ACUTE" }

RECURSIVE StringsOver(_, _)
StringsOver(chars, n) ==
    IF n = 0 THEN { <<>> }
    ELSE LET shorter == StringsOver(chars, n - 1)
         IN shorter \cup { t \o <<c>> : t \in {x \in shorter : Len(x) = n - 1},
                                        c \in chars }

InitNorm ==
    /\ called = "none"
    /\ arg \in {StrV(t) : t \in StringsOver(FacetChars, MaxLen)} \cup NonStrings
    /\ ret = None

Call_norm == Call("_norm", _norm(arg))

NextNorm == Call_norm

SpecNorm == InitNorm /\ [][NextNorm]_vars

\* C9: _norm is idempotent: what it returns is a string of word characters
\* in groups separated by single spaces, without a space at either end, and
\* _norm returns that string unchanged.
C9_NormIdempotent ==
    called = "_norm" =>
        /\ ret.t = "str"
        /\ \A i \in DOMAIN ret.v : IsWord(ret.v[i]) \/ ret.v[i] = " "
        /\ \A i \in DOMAIN ret.v :
              ret.v[i] = " " => /\ i > 1 /\ i < Len(ret.v)
                                /\ ret.v[i-1] # " "
        /\ _norm(ret) = ret

\* C9 witness: a string with punctuation and whitespace runs that _norm
\* changed into two groups of word characters.
C9_Witness ==
    /\ called = "_norm"
    /\ arg.t = "str" /\ \E i \in DOMAIN arg.v : IsPunct(arg.v[i])
    /\ arg.v # ret.v
    /\ \E i \in DOMAIN ret.v : ret.v[i] = " "

(***************************************************************************)
(* _num, _disc, _rating: price-like values                                 *)
(***************************************************************************)
\* the longest price string is MaxChunks chunks
MaxChunks == 4

Chunks == { <<"1">>, <<"2","9","9">>, <<",">>, <<".">>, <<"5","0">>, <<"-">>, <<"%">>, <<"R","s","."," ">> }

RECURSIVE ChunkStrings(_)
ChunkStrings(n) ==
    IF n = 0 THEN { <<>> }
    ELSE LET shorter == ChunkStrings(n - 1)
         IN shorter \cup { t \o c : t \in shorter, c \in Chunks }

PriceValues ==
    {StrV(t) : t \in ChunkStrings(MaxChunks)} \cup
    { None, IntV(1299), IntV(-20), IntV(0), BoolV(TRUE),
      FloatOf(FALSE, <<"4">>, <<"5">>), FloatOf(TRUE, <<"2","9">>, <<"9","5">>),
      ListV(<<IntV(1), IntV(299)>>),
      ListV(<<StrV(<<"R","s">>), FloatOf(FALSE, <<>>, <<"5">>)>>),
      DictV(<< <<StrV(<<"m","r","p">>), IntV(50)>> >>), DictV(<<>>) }

InitParse == called = "none" /\ arg \in PriceValues /\ ret = None

Call_num == Call("_num", _num(arg))

Call_disc == Call("_disc", _disc(arg))

Call_rating == Call("_rating", _rating(arg))

NextParse == Call_num \/ Call_disc \/ Call_rating

SpecParse == InitParse /\ [][NextParse]_vars

\* the positions of the decimal digits of s
DigitPositions(s) == {i \in DOMAIN s : IsDecimal(s[i])}

MinOf(S) == CHOOSE x \in S : \A y \in S : x <= y

\* the last position of the run of digits that starts at i
DigitRunEnd(s, i) ==
    CHOOSE j \in i..Len(s) :
        /\ \A k \in i..j : IsDecimal(s[k])
        /\ (j = Len(s) \/ ~IsDecimal(s[j+1]))

\* the first substring of s that is digits, optionally followed by a point
\* and digits (s holds a digit): its digits before and after the point
FirstNumber(s) ==
    LET i == MinOf(DigitPositions(s))
        j == DigitRunEnd(s, i)
        hasFrac == j + 2 <= Len(s) /\ s[j+1] = "." /\ IsDecimal(s[j+2])
    IN [whole |-> SubSeq(s, i, j),
        frac |-> IF hasFrac THEN SubSeq(s, j + 2, DigitRunEnd(s, j + 2)) ELSE <<>>]

\* the numeral q without the zeros that do not count
Significant(q) ==
    [whole |-> StripLeadingZeros(q.whole), frac |-> StripTrailingZeros(q.frac)]

\* the float f is the number the numeral q writes
FloatIs(f, q) ==
    /\ f.t = "float" /\ ~f.neg
    /\ [whole |-> f.whole, frac |-> f.frac] = Significant(q)

\* the numeral of 100 * q: the point moves two places to the right
Times100(q) ==
    LET fr == q.frac \o <<"0", "0">>
    IN [whole |-> q.whole \o SubSeq(fr, 1, 2), frac |-> SubSeq(fr, 3, Len(fr))]

\* the numeral q writes a number above 100
Above100(q) ==
    LET w == StripLeadingZeros(q.whole)
    IN \/ Len(w) > 3
       \/ Len(w) = 3 /\ (w # <<"1","0","0">> \/ StripTrailingZeros(q.frac) # <<>>)

\* C5: _num returns None for None; otherwise, with s the string form of the
\* argument without its commas, it returns None exactly when s holds no
\* digit, and else the value of the first number in s.
C5_NumFirstNumber ==
    called = "_num" =>
        IF arg = None THEN ret = None
        ELSE LET s == RemoveCommas(PyStr(arg))
             IN IF DigitPositions(s) = {} THEN ret = None
                ELSE FloatIs(ret, FirstNumber(s))

\* C5 witness: "1,299", a comma between digits, read as the one number 1299.
C5_Witness ==
    /\ called = "_num"
    /\ arg = StrV(<<"1",",","2","9","9">>)
    /\ ret = FloatOf(FALSE, <<"1","2","9","9">>, <<>>)

\* the position of the first digit of s is preceded by a minus sign
MinusBeforeFirstNumber(s) ==
    LET i == MinOf(DigitPositions(s)) IN i > 1 /\ s[i-1] = "-"

MaxPairs == 3

DetailPairs ==
    { <<StrV(<<"M","a","t","e","r","i","a","l">>), StrV(<<"C","o","t","t","o","n">>)>>,
      <<StrV(<<"F","i","t">>), StrV(<<"S","l","i","m"," ","F","i","t">>)>>,
      <<StrV(<<"S","i","z","e">>), IntV(42)>>,
      <<StrV(<<"T","h","e">>), None>> }

\* what a list of details may hold: single-entry dicts, a dict of two
\* entries, and elements that are no dict
DetailElements ==
    { DictV(<<p>>) : p \in DetailPairs } \cup
    { DictV(<< <<StrV(<<"F","i","t">>), StrV(<<"S","l","i","m"," ","F","i","t">>)>>,
               <<StrV(<<"M","a","t","e","r","i","a","l">>), ListV(<<StrV(<<"R","e","d">>), IntV(4)>>)>> >>),
      StrV(<<"C","o","t","t","o","n">>), None }

RECURSIVE SeqsOver(_, _)
SeqsOver(S, n) ==
    IF n = 0 THEN { <<>> }
    ELSE LET shorter == SeqsOver(S, n - 1)
         IN shorter \cup { t \o <<x>> : t \in {y \in shorter : Len(y) = n - 1},
                                        x \in S }

\* the entries of a dict have distinct keys
DistinctKeys(kvs) ==
    \A i, j \in DOMAIN kvs : i # j => kvs[i][1] # kvs[j][1]

DetailValues ==
    { ListV(l) : l \in SeqsOver(DetailElements, MaxPairs) } \cup
    { DictV(d) : d \in {x \in SeqsOver(DetailPairs, MaxPairs) : DistinctKeys(x)} } \cup
    { None, StrV(<<"M","a","t","e","r","i","a","l"," ","C","o","t","t","o","n">>), IntV(42) }

InitDetails == called = "none" /\ arg \in DetailValues /\ ret = None

Call_details_tokens == Call("_details_tokens", _details_tokens(arg))

NextDetails == Call_details_tokens

SpecDetails == InitDetails /\ [][NextDetails]_vars

\* the (key, value) pairs of product details x, as C6 describes them
PairsOf(x) ==
    CASE x.t = "dict" -> x.v
      [] x.t = "list" ->
            LET dicts == SelectSeq(x.v, LAMBDA e : e.t = "dict")
            IN Flatten([i \in DOMAIN dicts |-> dicts[i].v])
      [] OTHER -> <<>>

\* C6: _details_tokens returns the concatenation, in pair order, of the
\* terms of each pair's key followed by the terms of its value; a mapping
\* gives what the list of its entries as single-entry mappings gives.
C6_DetailsConcatenation ==
    called = "_details_tokens" =>
        LET pairs == PairsOf(arg)
        IN /\ ret = Flatten([i \in DOMAIN pairs |->
                        build_terms(StrV(PyStr(pairs[i][1])))
                        \o build_terms(StrV(PyStr(pairs[i][2])))])
           /\ arg.t = "dict" =>
                ret = _details_tokens(
                        ListV([i \in DOMAIN arg.v |-> DictV(<<arg.v[i]>>)]))

\* C6 witness: [{"Material": "Cotton"}, {"Fit": "Slim Fit"}] gives the terms
\* of Material, Cotton, Fit, Slim Fit in that order.
C6_Witness ==
    /\ called = "_details_tokens"
    /\ arg = ListV(<< DictV(<< <<StrV(<<"M","a","t","e","r","i","a","l">>), StrV(<<"C","o","t","t","o","n">>)>> >>),
                      DictV(<< <<StrV(<<"F","i","t">>), StrV(<<"S","l","i","m"," ","F","i","t">>)>> >>) >>)
    /\ ret = << <<"m","a","t","e","r","i">>, <<"c","o","t","t","o","n">>, <<"f","i","t">>, <<"s","l","i","m">>, <<"f","i","t">> >>

(***************************************************************************)
(* preprocess_row: raw records                                             *)
(***************************************************************************)
\* a raw record is one of the base records with up to MaxEdits keys set to
\* another value or removed
MaxEdits == 1

RawKeys ==
    { "pid", "title", "description", "brand", "category", "sub_category",
      "seller", "out_of_stock", "selling_price", "actual_price", "discount",
      "average_rating", "product_details", "url" }

\* the record of the end-to-end scenario of the specification
ScenarioDoc ==
    [ k \in {"pid", "title", "brand", "selling_price", "discount",
             "average_rating"} |->
        CASE k = "pid" -> StrV(<<"P","1">>)
          [] k = "title" -> StrV(<<"M","e","n","'","s"," ","R","e","d"," ","T","-","S","h","i","r","t","!","!">>)
          [] k = "brand" -> StrV(<<>>)
          [] k = "selling_price" -> StrV(<<"1",",","2","9","9">>)
          [] k = "discount" -> StrV(<<"2","0","%"," ","o","f","f">>)
          [] k = "average_rating" -> StrV(<<"b","a","d">>) ]

FullDoc ==
    [ k \in RawKeys |->
        CASE k = "pid" -> StrV(<<"P","2">>)
          [] k = "title" -> StrV(<<"T","h","e"," ","w","i","l","l","i","n","g"," ","s","h","o","e","s">>)
          [] k = "description" -> StrV(<<"R","e","d"," ","s","h","o","e","s",","," ","s","i","z","e"," ","4","2">>)
          [] k = "brand" -> StrV(<<" ","H","&","M"," ">>)
          [] k = "category" -> StrV(<<"C","l","o","t","h","i","n","g"," ","&"," ","A","c","c","e","s","s","o","r","i","e","s">>)
          [] k = "sub_category" -> StrV(<<"F","o","o","t","-","w","e","a","r">>)
          [] k = "seller" -> StrV(<<"S","h","o","e"," ","C","o",".">>)
          [] k = "out_of_stock" -> BoolV(TRUE)
          [] k = "selling_price" -> IntV(499)
          [] k = "actual_price" -> StrV(<<"R","s","."," ","4","9","9",".","5","0"," ","o","n","l","y">>)
          [] k = "discount" -> StrV(<<"5","0","%"," ","o","f","f">>)
          [] k = "average_rating" -> StrV(<<"4",".","3">>)
          [] k = "product_details" ->
                ListV(<< DictV(<< <<StrV(<<"M","a","t","e","r","i","a","l">>), StrV(<<"C","o","t","t","o","n">>)>> >>),
                         DictV(<< <<StrV(<<"F","i","t">>), StrV(<<"S","l","i","m"," ","F","i","t">>)>> >>) >>)
          [] k = "url" -> StrV(<<"h","t","t","p",":","/","/","x","/","p","2">>) ]

EditValues ==
    { None, StrV(<<>>), StrV(<<"1","5","0","%"," ","o","f","f">>), IntV(0), BoolV(TRUE),
      ListV(<<StrV(<<"4",".","3">>)>>), DictV(<< <<StrV(<<"F","i","t">>), StrV(<<"S","l","i","m"," ","F","i","t">>)>> >>) }

Remove(doc, key) == [k \in DOMAIN doc \ {key} |-> doc[k]]

Put(doc, key, value) ==
    [k \in DOMAIN doc \cup {key} |-> IF k = key THEN value ELSE doc[k]]

RECURSIVE DocsWithEdits(_)
DocsWithEdits(n) ==
    IF n = 0 THEN { ScenarioDoc, FullDoc }
    ELSE LET fewer == DocsWithEdits(n - 1)
         IN fewer \cup { Remove(d, k) : d \in fewer, k \in RawKeys }
                  \cup { Put(d, k, v) : d \in fewer, k \in RawKeys, v \in EditValues }

InitRow == called = "none" /\ arg \in DocsWithEdits(MaxEdits) /\ ret = None

Call_preprocess_row == Call("preprocess_row", preprocess_row(arg))

NextRow == Call_preprocess_row

SpecRow == InitRow /\ [][NextRow]_vars

NormalizedKeys ==
    { "pid", "title_raw", "description_raw", "product_details_raw",
      "discount_raw", "url", "brand", "category", "sub_category", "seller",
      "title_tokens", "desc_tokens", "details_tokens", "out_of_stock",
      "selling_price", "actual_price", "discount_frac", "average_rating" }

ParsedKeys ==
    { "brand", "category", "sub_category", "seller", "title_tokens",
      "desc_tokens", "details_tokens", "out_of_stock", "selling_price",
      "actual_price", "discount_frac", "average_rating" }

\* C3: preprocess_row returns for every raw record, whatever keys it has and
\* whatever their values are, a record with exactly the 18 normalized keys.
C3_RowTotal ==
    called = "preprocess_row" => DOMAIN ret = NormalizedKeys

\* C3 witness: a record without some of the keys, with a rating that is no
\* number and a price that is no string, normalized with no rating.
C3_Witness ==
    /\ called = "preprocess_row"
    /\ DOMAIN arg # RawKeys
    /\ "average_rating" \in DOMAIN arg /\ arg["average_rating"].t = "str"
    /\ "selling_price" \in DOMAIN arg
    /\ arg["selling_price"].t \in {"list", "dict", "bool"}
    /\ DOMAIN ret = NormalizedKeys
    /\ ret.average_rating = None

\* C4: a key that is null gives every parsed field the value the record
\* without the key gives.
C4_MissingAsNull ==
    called = "preprocess_row" =>
        \A k \in DOMAIN arg :
            arg[k] = None =>
                LET without == preprocess_row(Remove(arg, k))
                IN \A f \in ParsedKeys : ret[f] = without[f]

\* C4 witness: a record whose brand is null, normalized to brand "unknown".
C4_Witness ==
    /\ called = "preprocess_row"
    /\ "brand" \in DOMAIN arg /\ arg["brand"] = None
    /\ "title" \in DOMAIN arg /\ arg["title"] # None
    /\ ret.brand = StrV(<<"u","n","k","n","o","w","n">>)

\* C7: the discount_frac of a normalized record is None or a number in
\* [0, 1].
C7_DiscountInUnitInterval ==
    called = "preprocess_row" =>
        \/ ret.discount_frac = None
        \/ /\ ret.discount_frac.t = "float"
           /\ ~ret.discount_frac.neg
           /\ ~FloatGt1(ret.discount_frac)

(***************************************************************************)
(* _iter_docs: files that are a JSON array of objects, or one object per   *)
(* line, after some leading whitespace                                     *)
(***************************************************************************)
MaxDocs == 2

\* leading whitespace: none, a little, and around the size of the peek
LeadLengths == {0, 1, 2, PeekSize - 1, PeekSize, PeekSize + 1}

Lead(n, c) == [i \in 1..n |-> c]

ObjectSeqs == SeqsOver({"OBJ1", "OBJ2"}, MaxDocs)

\* [OBJ1, OBJ2] on one line, or one element per line
ArrayText(docs, multiline) ==
    LET nl == IF multiline THEN <<"\n">> ELSE <<>>
    IN <<"[">> \o nl
       \o JoinWith([i \in DOMAIN docs |-> <<docs[i]>>], <<",">> \o (IF multiline THEN <<"\n">> ELSE <<" ">>))
       \o nl \o <<"]">> \o <<"\n">>

\* one object per line, with or without blank lines between
LinesText(docs, blanks) ==
    Flatten([i \in DOMAIN docs |->
        <<docs[i]>> \o (IF blanks THEN <<" ", "\n", "\n">> ELSE <<"\n">>)])

Files ==
    { Lead(n, c) \o body :
        n \in LeadLengths, c \in {" ", "\n"},
        body \in { ArrayText(d, m) : d \in ObjectSeqs, m \in BOOLEAN } \cup
                 { LinesText(d, b) : d \in ObjectSeqs, b \in BOOLEAN } }

InitDocs == called = "none" /\ arg \in Files /\ ret = None

Call_iter_docs == Call("_iter_docs", _iter_docs(arg))

NextDocs == Call_iter_docs

SpecDocs == InitDocs /\ [][NextDocs]_vars

\* the objects of a file in the order they stand in it: the elements of the
\* array when the file is an array, the lines when it is one object a line
ObjectsOf(file) ==
    LET objs == SelectSeq(file, IsObject)
    IN [i \in DOMAIN objs |-> Document(objs[i])]

\* C10: whatever whitespace the file begins with, _iter_docs reads it as an
\* array when its first other character is "[" and as lines of objects
\* otherwise: it yields the elements of the array, or the objects of the
\* lines, in order.
C10_FormatByFirstCharacter ==
    called = "_iter_docs" => ret = Yielded(ObjectsOf(arg), FALSE)
=============================================================================
